---- MODULE Spec2Model ----
(***************************************************************************)
(* A model of mmaptwo (src/mmaptwo.h, lines 1-1463: the public header and  *)
(* the two-tier mapping/page implementation), with both backends: the      *)
(* POSIX one (open/fstat/fcntl/mmap/munmap) and the Windows one            *)
(* (CreateFile/CreateFileMapping/MapViewOfFile).  The backend, the         *)
(* allocation granularity and the file are fixed by Init; the operations   *)
(* of the library are the actions.                                         *)
(*                                                                         *)
(* size_t is SizeBits wide and its arithmetic wraps.  The operating        *)
(* system is modelled by what it holds (open handles, views) and by what   *)
(* its calls return, failures included.                                    *)
(***************************************************************************)
EXTENDS Integers, Sequences, FiniteSets, TLC

VARIABLES
  os,      \* "unix" or "win32": the backend this build selects (MMAPTWO_OS)
  gran,    \* sysconf(_SC_PAGE_SIZE) / dwAllocationGranularity
  file,    \* the bytes of the file named in open
  m,       \* the Mapping record the caller holds, or NoMap
  hnd,     \* the handles this process holds open (descriptors, authorities)
  views,   \* the native views mapped into the address space
  pages,   \* the Page records the caller holds, by caller-side name
  req,     \* per page: what the caller asked for and what the OS answered
  heap,    \* live heap blocks by kind (leaked ones included)
  errno,   \* the C library's errno
  pend,    \* an open call between its native open and mmaptwo_open_rest
  last,    \* the last library call: its arguments and its result
  calls,   \* how many acquire calls were made so far
  thr      \* per thread: the acquire call it is in, and how far it got

vars ==
  <<os, gran, file, m, hnd, views, pages, req, heap, errno, pend, last, calls,
    thr>>

---------------------------------------------------------------------------
(* Bounds of the model *)

\* width of size_t in bits
SizeBits == 20
\* longest file
MaxFileLen == 3
\* most Page records allocated at one time
MaxPages == 1
\* most acquire calls of one run
MaxAcquires == 1

SIZE_MAX == 2^SizeBits - 1
Wrap(x) == x % (SIZE_MAX + 1)
\* the value (off_t)x is negative: off_t is signed and as wide as size_t
OffTNegative(x) == x >= 2^(SizeBits - 1)

Granularities == {1, 2, 4}
\* the arguments tried: around the file's length and around SIZE_MAX
OpenSizes == {0, 2, MaxFileLen + 1, SIZE_MAX}
OpenOffsets == {0, 1, MaxFileLen, MaxFileLen + 1, SIZE_MAX - 1}
AcquireSizes == {0, 1, 2, MaxFileLen + 1, SIZE_MAX}
AcquireOffsets == {0, 1, 2, MaxFileLen, SIZE_MAX}
FileLengths == {0, MaxFileLen}
FileBytes(n) == [i \in 1..n |-> (7 * i + 3) % 256]

NULL == 0
MAP_FAILED == -1
NoMap == [len |-> 0, shift |-> 0, fmd |-> 0, fd |-> 0, offnum |-> 0,
          mt |-> [mode |-> 0, end |-> 0, privy |-> 0, bequeath |-> 0],
          live |-> FALSE]
\* the threads that call mmaptwo_acquire on one Mapping; pc: where the
\* thread is in its call (idle before it, done after it); sz, off, fail: the
\* arguments and the failure it meets; abs, ptr, len, shift: the locals off,
\* ptr, fullsize and fullshift; ok, page: whether a Page was returned, and
\* which
Threads == {1, 2}
NoThread == [pc |-> "idle", sz |-> 0, off |-> 0, fail |-> "none", abs |-> 0,
             ptr |-> 0, len |-> 0, shift |-> 0, ok |-> FALSE, page |-> 0]
NoThreads == [t \in Threads |-> NoThread]
NoCall == [active |-> FALSE, mt |-> NoMap.mt, fd |-> 0, mode |-> <<>>]

---------------------------------------------------------------------------
(* enum mmaptwo_mode *)

mmaptwo_mode_read == 114
mmaptwo_mode_write == 119
mmaptwo_mode_end == 101
mmaptwo_mode_private == 112
mmaptwo_mode_bequeath == 113

\* a mode text is the sequence of its characters before the NUL
ModeStrings ==
  { <<mmaptwo_mode_read>>,
    <<mmaptwo_mode_write>>,
    <<mmaptwo_mode_read, mmaptwo_mode_end>>,
    <<mmaptwo_mode_write, mmaptwo_mode_private>>,
    <<mmaptwo_mode_end>>,
    <<>>,
    <<mmaptwo_mode_read, mmaptwo_mode_bequeath>> }

\* mmode[i]: a mode text is followed by its terminating NUL
mmode_at(mmode, i) ==
  IF i + 1 > Len(mmode) THEN 0 ELSE mmode[i + 1]

\* the switch of mmaptwo_mode_parse, for a character other than NUL
mode_parse_case(c, out) ==
  IF c = mmaptwo_mode_write THEN [out EXCEPT !.mode = mmaptwo_mode_write]
  ELSE IF c = mmaptwo_mode_read THEN [out EXCEPT !.mode = mmaptwo_mode_read]
  ELSE IF c = mmaptwo_mode_end THEN [out EXCEPT !.end = mmaptwo_mode_end]
  ELSE IF c = mmaptwo_mode_private
    THEN [out EXCEPT !.privy = mmaptwo_mode_private]
  ELSE IF c = mmaptwo_mode_bequeath
    THEN [out EXCEPT !.bequeath = mmaptwo_mode_bequeath]
  ELSE out

\* a wrong loop: one with no limit of 8 characters
RECURSIVE mode_parse_unbounded(_, _, _)
mode_parse_unbounded(mmode, i, out) ==
  IF mmode_at(mmode, i) = 0 THEN out
  ELSE mode_parse_unbounded(mmode, i + 1,
                            mode_parse_case(mmode_at(mmode, i), out))

\* the loop of mmaptwo_mode_parse from index i on
RECURSIVE mode_parse_from(_, _, _)
mode_parse_from(mmode, i, out) ==
  IF i >= 8 THEN out
  ELSE IF mmode_at(mmode, i) = 0 THEN out
  ELSE mode_parse_from(mmode, i + 1, mode_parse_case(mmode_at(mmode, i), out))

\* a wrong parser: one in which the first 'r' or 'w' decides the access
RECURSIVE mode_parse_first_access(_, _, _)
mode_parse_first_access(mmode, i, out) ==
  IF i >= 8 THEN out
  ELSE IF mmode_at(mmode, i) = 0 THEN out
  ELSE LET c == mmode_at(mmode, i) IN
    mode_parse_first_access(mmode, i + 1,
      IF c \in {mmaptwo_mode_read, mmaptwo_mode_write} /\ out.mode # 0
        THEN out
        ELSE mode_parse_case(c, out))

mmaptwo_mode_parse_first_access(mmode) ==
  mode_parse_first_access(mmode, 0,
                          [mode |-> 0, end |-> 0, privy |-> 0, bequeath |-> 0])

mmaptwo_mode_parse(mmode) ==
  mode_parse_from(mmode, 0, [mode |-> 0, end |-> 0, privy |-> 0, bequeath |-> 0])

\* how many characters of mmode the loop reads, from index i on
RECURSIVE mode_parse_reads_from(_, _)
mode_parse_reads_from(mmode, i) ==
  IF i >= 8 THEN 0
  ELSE IF mmode_at(mmode, i) = 0 THEN 1
  ELSE 1 + mode_parse_reads_from(mmode, i + 1)

mode_parse_reads(mmode) == mode_parse_reads_from(mmode, 0)

---------------------------------------------------------------------------
(* Helpers of the model *)

\* the least positive number not in S
LowestFree(S) ==
  CHOOSE n \in 1..(Cardinality(S) + 1) :
    n \notin S /\ \A k \in 1..(n - 1) : k \in S

Handle(h, kind, inherit, acc, maxsz) ==
  [h |-> h, kind |-> kind, inherit |-> inherit, acc |-> acc, maxsz |-> maxsz]

HandleOf(h) == CHOOSE x \in hnd : x.h = h
IsOpen(h) == \E x \in hnd : x.h = h
NewHandle == LowestFree({x.h : x \in hnd})

\* views are placed Stride apart, so that no two overlap
Stride == SIZE_MAX + 1
NewBase == Stride * LowestFree({v.base \div Stride : v \in views})

---------------------------------------------------------------------------
(* POSIX backend: flag conversions and file size *)

\* whether <fcntl.h> defines O_CLOEXEC (it does under _POSIX_C_SOURCE 200809L)
O_CLOEXEC_defined == TRUE

mmaptwo_mode_rw_cvt_unix(mmode) ==
  LET fast_no_bequeath == O_CLOEXEC_defined IN
  IF mmode = mmaptwo_mode_write
    THEN [acc |-> "O_RDWR", cloexec |-> fast_no_bequeath]
  ELSE IF mmode = mmaptwo_mode_read
    THEN [acc |-> "O_RDONLY", cloexec |-> fast_no_bequeath]
  \* 0 is the value of O_RDONLY, with no O_CLOEXEC
  ELSE [acc |-> "O_RDONLY", cloexec |-> FALSE]

mmaptwo_mode_prot_cvt_unix(mmode) ==
  IF mmode = mmaptwo_mode_write THEN {"PROT_WRITE", "PROT_READ"}
  ELSE IF mmode = mmaptwo_mode_read THEN {"PROT_READ"}
  ELSE {}

mmaptwo_mode_flag_cvt(mprivy) ==
  IF mprivy # 0 THEN "MAP_PRIVATE" ELSE "MAP_SHARED"

\* fstat's st_size, or zero when fstat fails
mmaptwo_file_size_e_unix(statOk) ==
  IF ~statOk THEN 0 ELSE Len(file)

---------------------------------------------------------------------------
(* Windows backend: flag conversions and file size *)

mmaptwo_mode_rw_cvt_win32(mmode) ==
  IF mmode = mmaptwo_mode_write THEN {"GENERIC_READ", "GENERIC_WRITE"}
  ELSE IF mmode = mmaptwo_mode_read THEN {"GENERIC_READ"}
  ELSE {}

mmaptwo_mode_disposition_cvt(mmode) ==
  IF mmode = mmaptwo_mode_write THEN "OPEN_ALWAYS"
  ELSE IF mmode = mmaptwo_mode_read THEN "OPEN_EXISTING"
  ELSE "0"

mmaptwo_mode_prot_cvt_win32(mmode) ==
  IF mmode = mmaptwo_mode_write THEN "PAGE_READWRITE"
  ELSE IF mmode = mmaptwo_mode_read THEN "PAGE_READONLY"
  ELSE "0"

mmaptwo_mode_access_cvt(mt) ==
  IF mt.mode = mmaptwo_mode_write
    THEN {"FILE_MAP_READ", "FILE_MAP_WRITE"}
         \cup (IF mt.privy # 0 THEN {"FILE_MAP_COPY"} ELSE {})
  ELSE IF mt.mode = mmaptwo_mode_read
    THEN {"FILE_MAP_READ"} \cup (IF mt.privy # 0 THEN {"FILE_MAP_COPY"} ELSE {})
  ELSE {}

\* GetFileSizeEx's size, or zero when it fails
mmaptwo_file_size_e_win32(sizeOk) ==
  IF sizeOk THEN Len(file) ELSE 0

---------------------------------------------------------------------------
(* The native open calls.  fileOk: the file exists and may be opened with  *)
(* the access asked for.                                                   *)

\* open(2): the new descriptor, or none (-1)
open_unix(flags, fileOk) ==
  IF fileOk
    THEN {Handle(NewHandle, "fd", ~flags.cloexec, flags.acc, 0)}
    ELSE {}

\* a wrong CreateFile: one that ignores bInheritHandle
CreateFile_never_inherited(access, inherit, disposition, fileOk) ==
  IF disposition = "0" \/ ~fileOk
    THEN {}
    ELSE {Handle(NewHandle, "file", FALSE, access, 0)}

\* CreateFileA/W: the new handle, or none (INVALID_HANDLE_VALUE); a creation
\* disposition of 0 is no valid disposition and the call fails
CreateFile(access, inherit, disposition, fileOk) ==
  IF disposition = "0" \/ ~fileOk
    THEN {}
    ELSE {Handle(NewHandle, "file", inherit, access, 0)}

\* CreateFileMappingA: the new authority, or none (NULL).  A maximum size of
\* 0 stands for the current size of the file, and an empty file has no
\* mapping; a read-only mapping cannot exceed the file.
CreateFileMappingA(inherit, prot, maxsize, callOk) ==
  IF ~callOk \/ prot = "0" \/ (maxsize = 0 /\ Len(file) = 0)
     \/ (prot = "PAGE_READONLY" /\ maxsize > Len(file))
    THEN {}
    ELSE {Handle(NewHandle, "fmd", inherit, prot,
                 IF maxsize = 0 THEN Len(file) ELSE maxsize)}

---------------------------------------------------------------------------
(* mmaptwo_open, mmaptwo_u8open, mmaptwo_wopen up to the call of           *)
(* mmaptwo_open_rest.  The result: the descriptor opened (or none), errno  *)
(* as the C library left it ("keep": untouched), the filename buffers      *)
(* still allocated and the call that failed, if one did (hit).             *)

NativeFail(err, hit) == [fd |-> {}, err |-> err, names |-> 0, hit |-> hit]

\* mmaptwo_open and mmaptwo_u8open of the POSIX backend
mmaptwo_open_unix(mode, fail) ==
  LET mt == mmaptwo_mode_parse(mode)
      fd == open_unix(mmaptwo_mode_rw_cvt_unix(mt.mode), fail # "open")
  IN IF fd = {} THEN NativeFail("ENOENT", "open")
     ELSE [fd |-> fd, err |-> "keep", names |-> 0, hit |-> "none"]

\* mmaptwo_wopen of the POSIX backend: mmaptwo_wctomb allocates the
\* multibyte name, which is freed once open(2) has returned
mmaptwo_wopen_unix(mode, fail) ==
  LET mt == mmaptwo_mode_parse(mode)
      fd == open_unix(mmaptwo_mode_rw_cvt_unix(mt.mode), fail # "open")
      mbfn == 1
  IN IF fail = "conv" THEN NativeFail("EILSEQ", "conv")
     ELSE IF fail = "buf" THEN NativeFail("ENOMEM", "buf")
     ELSE IF fd = {}
       THEN [fd |-> {}, err |-> "ENOENT", names |-> mbfn - 1, hit |-> "open"]
     ELSE [fd |-> fd, err |-> "keep", names |-> mbfn - 1, hit |-> "none"]

\* mmaptwo_open and mmaptwo_wopen of the Windows backend
mmaptwo_open_win32(mode, fail) ==
  LET mt == mmaptwo_mode_parse(mode)
      fd == CreateFile(mmaptwo_mode_rw_cvt_win32(mt.mode), mt.bequeath # 0,
                       mmaptwo_mode_disposition_cvt(mt.mode), fail # "open")
  IN IF fd = {} THEN NativeFail("keep", "open")
     ELSE [fd |-> fd, err |-> "keep", names |-> 0, hit |-> "none"]

\* mmaptwo_u8open of the Windows backend: mmaptwo_u8towc allocates the wide
\* name, which is freed once CreateFileW has returned
mmaptwo_u8open_win32(mode, fail) ==
  LET mt == mmaptwo_mode_parse(mode)
      fd == CreateFile(mmaptwo_mode_rw_cvt_win32(mt.mode), mt.bequeath # 0,
                       mmaptwo_mode_disposition_cvt(mt.mode), fail # "open")
      wcfn == 1
  IN IF fail = "conv" THEN NativeFail("keep", "conv")
     ELSE IF fail = "buf" THEN NativeFail("ENOMEM", "buf")
     ELSE IF fd = {}
       THEN [fd |-> {}, err |-> "keep", names |-> wcfn - 1, hit |-> "open"]
     ELSE [fd |-> fd, err |-> "keep", names |-> wcfn - 1, hit |-> "none"]

---------------------------------------------------------------------------
(* mmaptwo_open_rest.  The result: whether a Mapping is returned, errno,   *)
(* the handles left open, the Mapping records left allocated, the record   *)
(* returned and the call that failed, if one did (hit).                    *)

\* a wrong failure path: free(out) with no close(fd)
OpenFail_unix_noclose(fd, err, hit) ==
  [ok |-> FALSE, err |-> err, hnd |-> hnd, maps |-> 0, rec |-> NoMap,
   hit |-> hit]

\* a failure path after the record was allocated: close(fd); free(out)
OpenFail_unix(fd, err, hit) ==
  [ok |-> FALSE, err |-> err, hnd |-> hnd \ {HandleOf(fd)}, maps |-> 0,
   rec |-> NoMap, hit |-> hit]

\* a wrong "fix map size": the whole file, whatever the offset
EndSize_unix_whole(xsz, off) ==
  xsz

\* "fix map size": the length up to the end of the file, or 0 "to fail"
EndSize_unix(xsz, off) ==
  IF xsz < off THEN 0 ELSE xsz - off

mmaptwo_open_rest_unix(fd, mt, sz0, off, fail) ==
  LET fdrec == HandleOf(fd)
      \* fcntl(fd, F_SETFD, ...) sets or clears FD_CLOEXEC
      setrec == [fdrec EXCEPT !.inherit = (mt.bequeath # 0)]
      xsz == mmaptwo_file_size_e_unix(fail # "fstat")
      sz == IF mt.end # 0 THEN EndSize_unix(xsz, off) ELSE sz0
      sizeHit == IF mt.end # 0 /\ fail = "fstat" THEN "fstat" ELSE "none"
  IN IF fail = "calloc"
       THEN [ok |-> FALSE, err |-> "ENOMEM", hnd |-> hnd \ {fdrec},
             maps |-> 0, rec |-> NoMap, hit |-> "calloc"]
     ELSE IF fail \in {"getfd", "setfd"} THEN OpenFail_unix(fd, "EBADF", fail)
     ELSE IF sz = 0 THEN OpenFail_unix(fd, "EDOM", sizeHit)
     ELSE [ok |-> TRUE, err |-> "keep", hnd |-> (hnd \ {fdrec}) \cup {setrec},
           maps |-> 1, hit |-> sizeHit,
           rec |-> [len |-> sz, shift |-> 0, fmd |-> 0, fd |-> fd,
                    offnum |-> off, mt |-> mt, live |-> TRUE]]

\* a failure path after the record was allocated: CloseHandle(fd); free(out)
OpenFail_win32(fd, err, hit) ==
  [ok |-> FALSE, err |-> err, hnd |-> hnd \ {HandleOf(fd)}, maps |-> 0,
   rec |-> NoMap, hit |-> hit]

\* a wrong maximum size: the extended size, not clamped to the file
FullExtent_unclamped(size_clamp, extended_size, fulloff) ==
  Wrap(extended_size + fulloff)

\* the maximum size of the authority: "clamp size to end of file"
FullExtent(size_clamp, extended_size, fulloff) ==
  IF size_clamp > Wrap(extended_size + fulloff)
    THEN Wrap(extended_size + fulloff)
    ELSE size_clamp

\* junk: what the uninitialised fullshift holds when the granularity is 0
mmaptwo_open_rest_win32(fd, mt, sz0, off, fail, junk) ==
  LET fdrec == HandleOf(fd)
      size_clamp == mmaptwo_file_size_e_win32(fail # "fsize")
      sizeHit == IF fail = "fsize" THEN "fsize" ELSE "none"
      xsz == size_clamp
      sz == IF mt.end # 0 THEN Wrap(xsz - off) ELSE sz0
      psize == gran
      fullshift == IF psize > 0 THEN off ELSE junk
      fulloff == IF psize > 0 THEN Wrap(off - fullshift) ELSE off
      fullsize == IF psize > 0 THEN Wrap(sz + fullshift) ELSE sz
      size_shift == fullsize % psize
      extended_size ==
        IF psize > 0
          THEN IF size_shift > 0
                 THEN Wrap(fullsize + (psize - size_shift))
                 ELSE fullsize
          ELSE sz
      fullextent == FullExtent(size_clamp, extended_size, fulloff)
      fmd == CreateFileMappingA(mt.bequeath # 0,
               mmaptwo_mode_prot_cvt_win32(mt.mode), fullextent, fail # "cfm")
  IN IF fail = "calloc"
       THEN [ok |-> FALSE, err |-> "ENOMEM", hnd |-> hnd \ {fdrec},
             maps |-> 0, rec |-> NoMap, hit |-> "calloc"]
     ELSE IF mt.end # 0 /\ xsz < off THEN OpenFail_win32(fd, "keep", sizeHit)
     ELSE IF mt.end = 0 /\ sz0 = 0 THEN OpenFail_win32(fd, "keep", sizeHit)
     ELSE IF psize > 0 /\ fullshift >= SIZE_MAX - sz
       THEN OpenFail_win32(fd, "ERANGE", sizeHit)
     ELSE IF fulloff >= SIZE_MAX - extended_size
       THEN OpenFail_win32(fd, "ERANGE", sizeHit)
     ELSE IF fmd = {} THEN OpenFail_win32(fd, "keep", "cfm")
     ELSE [ok |-> TRUE, err |-> "keep", hnd |-> hnd \cup fmd, maps |-> 1,
           hit |-> sizeHit,
           rec |-> [len |-> fullsize, shift |-> fullshift,
                    fmd |-> (CHOOSE x \in fmd : TRUE).h, fd |-> fd,
                    offnum |-> off, mt |-> mt, live |-> TRUE]]

---------------------------------------------------------------------------
(* The native view calls.  A view: its base address, the file offset of    *)
(* its first byte, its length, the protection and sharing flags it was     *)
(* made with and, by file position, the bytes of its private copies (cow). *)

View(base, foff, len, flags) ==
  [base |-> base, foff |-> foff, len |-> len, flags |-> flags,
   cow |-> [i \in {} |-> 0]]

\* a store through the view is kept in a private copy: MAP_PRIVATE; on
\* Windows FILE_MAP_COPY, which FILE_MAP_WRITE overrides (FILE_MAP_ALL_ACCESS
\* holds both bits and maps a shared read/write view)
CopyOnWrite(v) ==
  \/ "MAP_PRIVATE" \in v.flags
  \/ ("FILE_MAP_COPY" \in v.flags /\ "FILE_MAP_WRITE" \notin v.flags)

\* a store through the view does not fault
Writable(v) ==
  \/ "PROT_WRITE" \in v.flags
  \/ "FILE_MAP_WRITE" \in v.flags
  \/ "FILE_MAP_COPY" \in v.flags

\* mmap(NULL, len, prot, flags, fd, fulloff): the address of the new view,
\* or MAP_FAILED.  It fails for a length of 0, a negative or unaligned
\* offset, a closed descriptor, a shared writable view of a descriptor not
\* open for writing, or for want of memory (callOk).
mmap(len, prot, flags, fd, fulloff, callOk) ==
  IF ~callOk \/ len = 0 \/ OffTNegative(fulloff)
     \/ (gran > 0 /\ fulloff % gran # 0)
     \/ ~IsOpen(fd)
     \/ ("PROT_WRITE" \in prot /\ flags = "MAP_SHARED"
           /\ HandleOf(fd).acc = "O_RDONLY")
    THEN [ptr |-> MAP_FAILED, view |-> {}]
    ELSE [ptr |-> NewBase,
          view |-> {View(NewBase, fulloff, len, prot \cup {flags})}]

\* MapViewOfFile(fmd, access, fulloff, fullsize): the address of the new
\* view, or NULL.  It fails for no access, an unaligned offset, a range
\* beyond the authority's maximum size, or for want of memory (callOk).
MapViewOfFile(fmd, access, fulloff, fullsize, callOk) ==
  IF ~callOk \/ access = {}
     \/ (gran > 0 /\ fulloff % gran # 0)
     \/ ~IsOpen(fmd)
     \/ fulloff + fullsize > HandleOf(fmd).maxsz
    THEN [ptr |-> NULL, view |-> {}]
    ELSE [ptr |-> NewBase, view |-> {View(NewBase, fulloff, fullsize, access)}]

\* a wrong munmap: one that unmaps every view of the process
munmap_everything(addr, len) ==
  {}

\* munmap(addr, len): the views left; unmapping MAP_FAILED unmaps nothing
munmap(addr, len) ==
  {v \in views : ~(addr <= v.base /\ v.base + v.len <= addr + len)}

\* UnmapViewOfFile(addr): the views left
UnmapViewOfFile(addr) ==
  {v \in views : v.base # addr}

---------------------------------------------------------------------------
(* mmaptwo_mmt_acquire.  The result: whether a Page is returned, errno,    *)
(* the Page records left allocated, the record returned, the view made,    *)
(* what was passed to and returned by the native call, and the call that   *)
(* failed, if one did (hit).                                               *)

NoPage == [ptr |-> NULL, len |-> 0, shift |-> 0, offnum |-> 0]

AcquireFail(err, recs, hit) ==
  [ok |-> FALSE, err |-> err, recs |-> recs, page |-> NoPage, view |-> {},
   nat |-> NULL, fulloff |-> 0, fullsize |-> 0, hit |-> hit]

\* a wrong range test: one that looks at the start of the range alone
RangeInvalid_unix_start_only(mu, sz, pre_off) ==
  pre_off > mu.len \/ sz = 0

\* "repair input size and offset", POSIX backend
RangeInvalid_unix(mu, sz, pre_off) ==
  pre_off > mu.len \/ sz > mu.len - pre_off \/ sz = 0

\* "repair input size and offset", Windows backend
RangeInvalid_win32(mu, sz, pre_off) ==
  LET shifted_len == Wrap(mu.len - mu.shift) IN
  pre_off > shifted_len \/ sz > shifted_len - pre_off \/ sz = 0

\* "adjust the offset": how far the offset lies past a multiple of psize
FullShift(off, psize) == off % psize

\* a wrong test: one that lets every shift and size through
ShiftOverflows_never(fullshift, sz) ==
  FALSE

\* "range fix failure": adding the shift to the size would wrap around
ShiftOverflows(fullshift, sz) == fullshift >= SIZE_MAX - sz

\* junk: what the uninitialised fullshift holds when the granularity is 0
mmaptwo_mmt_acquire_unix(mu, sz, pre_off, fail, junk) ==
  LET off == Wrap(pre_off + mu.offnum)
      psize == gran
      fullshift == IF psize > 0 THEN FullShift(off, psize) ELSE junk
      fulloff == IF psize > 0 THEN off - fullshift ELSE off
      fullsize == IF psize > 0 THEN sz + fullshift ELSE sz
      r == mmap(fullsize, mmaptwo_mode_prot_cvt_unix(mu.mt.mode),
                mmaptwo_mode_flag_cvt(mu.mt.privy), mu.fd, fulloff,
                fail # "map")
  IN IF RangeInvalid_unix(mu, sz, pre_off) THEN AcquireFail("EDOM", 0, "none")
     ELSE IF fail = "calloc" THEN AcquireFail("ENOMEM", 0, "calloc")
     ELSE IF psize > 0 /\ ShiftOverflows(fullshift, sz)
       THEN AcquireFail("ERANGE", 0, "none")
     ELSE IF r.ptr = NULL THEN AcquireFail("keep", 0, "map")
     ELSE [ok |-> TRUE,
           err |-> IF r.ptr = MAP_FAILED THEN "ENOMEM" ELSE "keep",
           hit |-> IF r.ptr = MAP_FAILED THEN "map" ELSE "none",
           recs |-> 1,
           page |-> [ptr |-> r.ptr, len |-> fullsize, shift |-> fullshift,
                     offnum |-> pre_off],
           view |-> r.view, nat |-> r.ptr, fulloff |-> fulloff,
           fullsize |-> fullsize]

mmaptwo_mmt_acquire_win32(mu, sz, pre_off, fail, junk) ==
  LET off == Wrap(pre_off + mu.offnum)
      psize == gran
      fullshift == IF psize > 0 THEN FullShift(off, psize) ELSE junk
      fulloff0 == IF psize > 0 THEN off - fullshift ELSE off
      fullsize == IF psize > 0 THEN sz + fullshift ELSE sz
      \* "adjust backward to file-mapping object"
      fulloff == Wrap(fulloff0 - Wrap(mu.offnum - mu.shift))
      r == MapViewOfFile(mu.fmd, mmaptwo_mode_access_cvt(mu.mt), fulloff,
                         fullsize, fail # "map")
  IN IF fail = "calloc" THEN AcquireFail("ENOMEM", 0, "calloc")
     \* returns without free(out)
     ELSE IF RangeInvalid_win32(mu, sz, pre_off)
       THEN AcquireFail("EDOM", 1, "none")
     ELSE IF psize > 0 /\ ShiftOverflows(fullshift, sz)
       THEN AcquireFail("ERANGE", 0, "none")
     ELSE IF r.ptr = NULL THEN AcquireFail("keep", 0, "map")
     ELSE [ok |-> TRUE, err |-> "keep", recs |-> 1, hit |-> "none",
           page |-> [ptr |-> r.ptr, len |-> fullsize, shift |-> fullshift,
                     offnum |-> pre_off],
           view |-> r.view, nat |-> r.ptr, fulloff |-> fulloff,
           fullsize |-> fullsize]

---------------------------------------------------------------------------
(* Queries *)

mmaptwo_mmt_length(mu) ==
  IF os = "unix" THEN mu.len ELSE Wrap(mu.len - mu.shift)

mmaptwo_mmt_offset(mu) == mu.offnum

\* a wrong page length: the aligned length of the view
mmaptwo_mmtp_length_aligned(pu) == pu.len

mmaptwo_mmtp_length(pu) == Wrap(pu.len - pu.shift)

mmaptwo_mmtp_offset(pu) == pu.offnum

mmaptwo_mmtp_get(pu) == pu.ptr + pu.shift

mmaptwo_get_page_size == gran

\* nonzero: "file bequeath prevention is race-proof"
mmaptwo_check_bequeath_stop ==
  IF os = "unix"
    THEN IF O_CLOEXEC_defined THEN 1 ELSE 0
    ELSE 1

\* what reading the byte at address a gives: the byte of the file the view
\* shows there; past the end of the file, zero or a bus error; a fault where
\* no view is mapped or the view may not be read
ReadByte(a) ==
  IF \E v \in views : v.base <= a /\ a < v.base + v.len
    THEN LET v == CHOOSE w \in views : w.base <= a /\ a < w.base + w.len
             pos == v.foff + (a - v.base)
         IN IF v.flags \cap {"PROT_READ", "FILE_MAP_READ"} = {}
              THEN {<<"SIGSEGV", 0>>}
            ELSE IF pos \in DOMAIN v.cow
              THEN {<<"byte", v.cow[pos]>>}
            ELSE IF pos < Len(file)
              THEN {<<"byte", file[pos + 1]>>}
              ELSE {<<"byte", 0>>, <<"SIGBUS", 0>>}
    ELSE {<<"SIGSEGV", 0>>}

---------------------------------------------------------------------------
(* The state machine *)

\* moff: the offset of the Mapping an acquire was made on; nat, fulloff,
\* fullsize, shift: the native view call's result and arguments and the
\* alignment shift acquire computed
\* rel: the native release calls a close made, in the order it made them
NoLast == [op |-> "none", res |-> NULL, sz |-> 0, off |-> 0, fail |-> "none",
           mode |-> <<>>, moff |-> 0, nat |-> NULL, fulloff |-> 0,
           fullsize |-> 0, shift |-> 0, rel |-> <<>>]

\* the points where a native call or an allocation of a call may fail; last
\* records the one that did (fail), "none" when none was reached
NativeFails == {"none", "open", "conv", "buf"}
\* the open function called and the point where it fails: only the
\* functions that convert the filename can fail to convert it
OpenCalls ==
  {<<variant, fail>> \in {"open", "u8open", "wopen"} \X NativeFails :
     fail \in {"conv", "buf"} =>
       variant = (IF os = "unix" THEN "wopen" ELSE "u8open")}
OpenRestFails ==
  IF os = "unix" THEN {"none", "calloc", "getfd", "setfd", "fstat"}
  ELSE {"none", "calloc", "fsize", "cfm"}
AcquireFails == {"none", "calloc", "map"}
\* the values an uninitialised size_t may hold; read only for granularity 0
Junk == IF gran = 0 THEN AcquireSizes ELSE {0}

Init ==
  /\ os \in {"unix", "win32"}
  /\ gran \in Granularities
  /\ file \in {FileBytes(n) : n \in FileLengths}
  /\ m = NoMap
  /\ hnd = {}
  /\ views = {}
  /\ pages = [k \in {} |-> NoPage]
  /\ req = [k \in {} |-> NoLast]
  /\ heap = [maps |-> 0, pages |-> 0, names |-> 0]
  /\ errno = "0"
  /\ pend = NoCall
  /\ last = NoLast
  /\ calls = 0
  /\ thr = NoThreads

\* mmaptwo_open / mmaptwo_u8open / mmaptwo_wopen, up to the native open;
\* the size and the offset are first read by mmaptwo_open_rest.
\* One Mapping is followed at a time, opened once the Pages are closed.
\* The caller clears errno before each call (as tests/dump.c does), so that
\* errno after the call is what the call left there.
OpenNativeOf(variant, mode, fail) ==
  /\ LET r == IF os = "unix"
                THEN IF variant = "wopen"
                       THEN mmaptwo_wopen_unix(mode, fail)
                       ELSE mmaptwo_open_unix(mode, fail)
                ELSE IF variant = "u8open"
                       THEN mmaptwo_u8open_win32(mode, fail)
                       ELSE mmaptwo_open_win32(mode, fail)
     IN /\ hnd' = hnd \cup r.fd
        /\ heap' = [heap EXCEPT !.names = @ + r.names]
        /\ errno' = IF r.err = "keep" THEN "0" ELSE r.err
        /\ IF r.fd = {}
             THEN /\ pend' = NoCall
                  /\ last' = [NoLast EXCEPT !.op = "open", !.fail = r.hit,
                                !.mode = mode]
             ELSE /\ pend' = [active |-> TRUE, mt |-> mmaptwo_mode_parse(mode),
                              fd |-> (CHOOSE x \in r.fd : TRUE).h,
                              mode |-> mode]
                  /\ last' = NoLast
  /\ UNCHANGED <<thr, os, gran, file, m, views, pages, req, calls>>

\* mmaptwo_open_rest(fd, mt, sz, off), which ends the open call
OpenRestOf(sz, off, fail, junk) ==
  /\ LET r == IF os = "unix"
                THEN mmaptwo_open_rest_unix(pend.fd, pend.mt, sz, off, fail)
                ELSE mmaptwo_open_rest_win32(pend.fd, pend.mt, sz, off, fail,
                                             junk)
     IN /\ hnd' = r.hnd
        /\ heap' = [heap EXCEPT !.maps = @ + r.maps]
        /\ m' = r.rec
        /\ errno' = IF r.err = "keep" THEN errno ELSE r.err
        /\ last' = [NoLast EXCEPT !.op = "open",
                      !.res = IF r.ok THEN 1 ELSE NULL,
                      !.sz = sz, !.off = off, !.fail = r.hit,
                      !.mode = pend.mode]
  /\ pend' = NoCall
  /\ UNCHANGED <<thr, os, gran, file, views, pages, req, calls>>

\* mmaptwo_acquire(m, sz, pre_off)
AcquireOf(sz, pre_off, fail, junk) ==
  /\ calls' = calls + 1
  /\ LET r == IF os = "unix"
                THEN mmaptwo_mmt_acquire_unix(m, sz, pre_off, fail, junk)
                ELSE mmaptwo_mmt_acquire_win32(m, sz, pre_off, fail, junk)
         k == LowestFree(DOMAIN pages)
     IN /\ views' = views \cup r.view
        /\ heap' = [heap EXCEPT !.pages = @ + r.recs]
        /\ errno' = IF r.err = "keep" THEN "0" ELSE r.err
        /\ pages' = IF r.ok
                      THEN [i \in DOMAIN pages \cup {k} |->
                              IF i = k THEN r.page ELSE pages[i]]
                      ELSE pages
        /\ req' = IF r.ok
                    THEN [i \in DOMAIN pages \cup {k} |->
                            IF i = k
                              THEN [NoLast EXCEPT !.op = "acquire", !.res = k,
                                      !.sz = sz, !.off = pre_off,
                                      !.moff = mmaptwo_mmt_offset(m),
                                      !.nat = r.nat, !.fulloff = r.fulloff,
                                      !.fullsize = r.fullsize,
                                      !.shift = r.page.shift]
                              ELSE req[i]]
                    ELSE req
        /\ last' = [NoLast EXCEPT !.op = "acquire",
                      !.res = IF r.ok THEN k ELSE NULL,
                      !.sz = sz, !.off = pre_off, !.fail = r.hit,
                      !.moff = mmaptwo_mmt_offset(m),
                      !.nat = r.nat, !.fulloff = r.fulloff,
                      !.fullsize = r.fullsize, !.shift = r.page.shift]
  /\ UNCHANGED <<thr, os, gran, file, m, hnd, pend>>

\* a release call: its name, its first argument (a handle, an address; 0 for
\* free, whose argument is the record) and its length argument, if any
ReleaseCall(call, a, n) == [call |-> call, a |-> a, n |-> n]

\* a wrong mmaptwo_mmt_dtor: the file is closed before the authority
mmaptwo_mmt_dtor_file_first(mu) ==
  IF os = "unix"
    THEN <<ReleaseCall("close", mu.fd, 0), ReleaseCall("free", 0, 0)>>
    ELSE <<ReleaseCall("CloseHandle", mu.fd, 0),
           ReleaseCall("CloseHandle", mu.fmd, 0),
           ReleaseCall("free", 0, 0)>>

\* mmaptwo_mmt_dtor(m): the calls it makes
mmaptwo_mmt_dtor(mu) ==
  IF os = "unix"
    THEN <<ReleaseCall("close", mu.fd, 0), ReleaseCall("free", 0, 0)>>
    ELSE <<ReleaseCall("CloseHandle", mu.fmd, 0),
           ReleaseCall("CloseHandle", mu.fd, 0),
           ReleaseCall("free", 0, 0)>>

\* mmaptwo_mmtp_dtor(p): the calls it makes
mmaptwo_mmtp_dtor(pu) ==
  IF os = "unix"
    THEN <<ReleaseCall("munmap", pu.ptr, pu.len), ReleaseCall("free", 0, 0)>>
    ELSE <<ReleaseCall("UnmapViewOfFile", pu.ptr, 0),
           ReleaseCall("free", 0, 0)>>

\* the handles left open once the calls were made; closing a handle that is
\* not open closes nothing
RECURSIVE Released(_, _)
Released(H, rel) ==
  IF rel = <<>> THEN H
  ELSE LET c == Head(rel) IN
       Released(IF c.call \in {"close", "CloseHandle"}
                  THEN {x \in H : x.h # c.a}
                  ELSE H,
                Tail(rel))

\* mmaptwo_page_close(p): mmaptwo_mmtp_dtor unmaps the view and frees the
\* record
PageCloseOf(k) ==
  /\ views' = IF os = "unix"
                THEN munmap(pages[k].ptr, pages[k].len)
                ELSE UnmapViewOfFile(pages[k].ptr)
  /\ pages' = [i \in DOMAIN pages \ {k} |-> pages[i]]
  /\ req' = [i \in DOMAIN pages \ {k} |-> req[i]]
  /\ heap' = [heap EXCEPT !.pages = @ - 1]
  /\ errno' = IF os = "unix" /\ pages[k].ptr = MAP_FAILED
                THEN "EINVAL" ELSE "0"
  /\ last' = [NoLast EXCEPT !.op = "page_close", !.res = k,
                !.rel = mmaptwo_mmtp_dtor(pages[k])]
  /\ UNCHANGED <<thr, os, gran, file, m, hnd, pend, calls>>

\* a wrong mmaptwo_close: one that also unmaps and frees the Mapping's Pages
Close_with_pages ==
  /\ ~pend.active
  /\ m.live
  /\ hnd' = {}
  /\ heap' = [heap EXCEPT !.maps = @ - 1, !.pages = 0]
  /\ m' = NoMap
  /\ views' = {}
  /\ pages' = [k \in {} |-> NoPage]
  /\ req' = [k \in {} |-> NoLast]
  /\ last' = [NoLast EXCEPT !.op = "close"]
  /\ errno' = "0"
  /\ UNCHANGED <<thr, os, gran, file, pend, calls>>

\* mmaptwo_close(m): mmaptwo_mmt_dtor closes the authority (Windows) and
\* the file, and frees the record; no Page is touched
Close ==
  /\ ~pend.active
  /\ m.live
  /\ hnd' = Released(hnd, mmaptwo_mmt_dtor(m))
  /\ heap' = [heap EXCEPT !.maps = @ - 1]
  /\ m' = NoMap
  /\ last' = [NoLast EXCEPT !.op = "close", !.rel = mmaptwo_mmt_dtor(m)]
  /\ errno' = "0"
  /\ UNCHANGED <<thr, os, gran, file, views, pages, req, pend, calls>>

\* the calls the program makes, with every argument and every failure of
\* the environment
OpenNative ==
  /\ ~pend.active
  /\ ~m.live
  /\ DOMAIN pages = {}
  /\ \E call \in OpenCalls, mode \in ModeStrings :
        OpenNativeOf(call[1], mode, call[2])

OpenRest ==
  /\ pend.active
  /\ \E sz \in OpenSizes, off \in OpenOffsets, fail \in OpenRestFails,
        junk \in Junk : OpenRestOf(sz, off, fail, junk)

Acquire ==
  /\ ~pend.active
  /\ m.live
  /\ heap.pages < MaxPages
  /\ calls < MaxAcquires
  /\ \E sz \in AcquireSizes, pre_off \in AcquireOffsets,
        fail \in AcquireFails, junk \in Junk :
          AcquireOf(sz, pre_off, fail, junk)

PageClose ==
  /\ ~pend.active
  /\ \E k \in DOMAIN pages : PageCloseOf(k)

Next ==
  \/ OpenNative
  \/ OpenRest
  \/ Acquire
  \/ PageClose
  \/ Close

Spec == Init /\ [][Next]_vars

---------------------------------------------------------------------------
(* Several Pages of one Mapping, and stores through them: the caller of    *)
(* src/tests/dump.c, had it written to the bytes it dumps.                 *)

\* most Page records allocated at one time, and most acquire calls
MaxLivePages == 2
MaxPageCalls == 2

\* the byte the caller stores
StoredByte == 255

PageModes ==
  { <<mmaptwo_mode_read>>,
    <<mmaptwo_mode_write>>,
    <<mmaptwo_mode_read, mmaptwo_mode_private>>,
    <<mmaptwo_mode_write, mmaptwo_mode_private>> }
PageSizes == {1, 2}
PageOffsets == {0, 1, MaxFileLen - 1}

PagesInit ==
  /\ os \in {"unix", "win32"}
  /\ gran \in {1, 2}
  /\ file = FileBytes(MaxFileLen)
  /\ m = NoMap
  /\ hnd = {}
  /\ views = {}
  /\ pages = [k \in {} |-> NoPage]
  /\ req = [k \in {} |-> NoLast]
  /\ heap = [maps |-> 0, pages |-> 0, names |-> 0]
  /\ errno = "0"
  /\ pend = NoCall
  /\ last = NoLast
  /\ calls = 0
  /\ thr = NoThreads

\* bytes[i] = b, bytes being mmaptwo_page_get(p) and i below
\* mmaptwo_page_length(p): the store goes to the view's private copy or to
\* the file; a store that faults ends the program
StoreOf(k, i, b) ==
  LET a == mmaptwo_mmtp_get(pages[k]) + i IN
  /\ \E v \in views : v.base <= a /\ a < v.base + v.len /\ Writable(v)
  /\ LET v == CHOOSE w \in views : w.base <= a /\ a < w.base + w.len
         pos == v.foff + (a - v.base)
     IN IF CopyOnWrite(v)
          THEN /\ views' = (views \ {v}) \cup
                           {[v EXCEPT !.cow =
                               [j \in DOMAIN v.cow \cup {pos} |->
                                  IF j = pos THEN b ELSE v.cow[j]]]}
               /\ file' = file
          ELSE /\ views' = views
               /\ file' = IF pos < Len(file)
                            THEN [file EXCEPT ![pos + 1] = b]
                            ELSE file
  /\ last' = [NoLast EXCEPT !.op = "store", !.res = k, !.off = i]
  /\ UNCHANGED <<thr, os, gran, m, hnd, pages, req, heap, errno, pend, calls>>

PagesOpen ==
  /\ ~pend.active
  /\ ~m.live
  /\ DOMAIN pages = {}
  /\ \E mode \in PageModes : OpenNativeOf("open", mode, "none")

PagesOpenRest ==
  /\ pend.active
  /\ \E off \in {0, 1} : OpenRestOf(MaxFileLen, off, "none", 0)

PagesAcquire ==
  /\ ~pend.active
  /\ m.live
  /\ heap.pages < MaxLivePages
  /\ calls < MaxPageCalls
  /\ \E sz \in PageSizes, pre_off \in PageOffsets, fail \in {"none", "map"} :
        AcquireOf(sz, pre_off, fail, 0)

PagesStore ==
  /\ ~pend.active
  /\ \E k \in DOMAIN pages :
        \E i \in 0..(mmaptwo_mmtp_length(pages[k]) - 1) :
          StoreOf(k, i, StoredByte)

PagesNext ==
  \/ PagesOpen
  \/ PagesOpenRest
  \/ PagesAcquire
  \/ PagesStore
  \/ PageClose
  \/ Close

PagesSpec == PagesInit /\ [][PagesNext]_vars

---------------------------------------------------------------------------
(* src/tests/dump.c run on a file of 5000 bytes: one open for reading,     *)
(* one acquire, the two closes.  The granularities are those of real       *)
(* systems (512 to 65536) and the degenerate 1.                            *)

DumpFile == FileBytes(5000)
DumpGranularities == {1, 512, 4096, 16384, 65536}
\* argv[3], argv[4]: the Mapping's size (0: up to the end) and offset
DumpOpenSizes == {0, 5000}
DumpOpenOffsets == {0, 4096}
\* argv[5], argv[6]: the Page's length and offset
DumpPageSizes == {50, 100, 4096}
DumpPageOffsets == {0, 4900, 4950}

DumpInit ==
  /\ os \in {"unix", "win32"}
  /\ gran \in DumpGranularities
  /\ file = DumpFile
  /\ m = NoMap
  /\ hnd = {}
  /\ views = {}
  /\ pages = [k \in {} |-> NoPage]
  /\ req = [k \in {} |-> NoLast]
  /\ heap = [maps |-> 0, pages |-> 0, names |-> 0]
  /\ errno = "0"
  /\ pend = NoCall
  /\ last = NoLast
  /\ calls = 0
  /\ thr = NoThreads

DumpOpen ==
  /\ ~pend.active
  /\ ~m.live
  /\ DOMAIN pages = {}
  /\ \E fail \in {"none", "open"} :
        OpenNativeOf("open", <<mmaptwo_mode_read>>, fail)

DumpOpenRest ==
  /\ pend.active
  /\ \E sz \in DumpOpenSizes, off \in DumpOpenOffsets,
        fail \in OpenRestFails : OpenRestOf(sz, off, fail, 0)

DumpAcquire ==
  /\ ~pend.active
  /\ m.live
  /\ heap.pages < MaxPages
  /\ calls < MaxAcquires
  /\ \E sz \in DumpPageSizes, pre_off \in DumpPageOffsets,
        fail \in AcquireFails : AcquireOf(sz, pre_off, fail, 0)

DumpNext ==
  \/ DumpOpen
  \/ DumpOpenRest
  \/ DumpAcquire
  \/ PageClose
  \/ Close

DumpSpec == DumpInit /\ [][DumpNext]_vars

---------------------------------------------------------------------------
(* src/unnamed/part_000: a Mapping opened with any mode, size and offset,  *)
(* and one Page asked for over all of it.                                  *)

\* pager = mmaptwo_acquire(mi, mmaptwo_length(mi), 0)
FullAcquire ==
  /\ ~pend.active
  /\ m.live
  /\ heap.pages < MaxPages
  /\ calls < MaxAcquires
  /\ \E fail \in AcquireFails, junk \in Junk :
        AcquireOf(mmaptwo_mmt_length(m), 0, fail, junk)

FullNext ==
  \/ OpenNative
  \/ OpenRest
  \/ FullAcquire
  \/ PageClose
  \/ Close

FullSpec == Init /\ [][FullNext]_vars

---------------------------------------------------------------------------
(* The library on a system whose granularity query gives 0:                *)
(* sysconf(_SC_PAGE_SIZE) <= 0, dwAllocationGranularity == 0.              *)

ZeroInit ==
  /\ os \in {"unix", "win32"}
  /\ gran = 0
  /\ file \in {FileBytes(n) : n \in FileLengths}
  /\ m = NoMap
  /\ hnd = {}
  /\ views = {}
  /\ pages = [k \in {} |-> NoPage]
  /\ req = [k \in {} |-> NoLast]
  /\ heap = [maps |-> 0, pages |-> 0, names |-> 0]
  /\ errno = "0"
  /\ pend = NoCall
  /\ last = NoLast
  /\ calls = 0
  /\ thr = NoThreads

ZeroSpec == ZeroInit /\ [][Next]_vars

---------------------------------------------------------------------------
(* Two threads that each call mmaptwo_acquire once on the same Mapping,    *)
(* their calls interleaved block by block.  errno is kept per thread by    *)
(* the C library and is not followed here.                                 *)

\* a wrong acquire: one that keeps the absolute offset in the Mapping
acquire_mapping_cached(mu, off) ==
  [mu EXCEPT !.offnum = off]

\* the Mapping record after the blocks of acquire: *mu is only read
acquire_mapping_after(mu, off) ==
  mu

ThreadInit ==
  /\ os \in {"unix", "win32"}
  /\ gran = 2
  /\ file = FileBytes(MaxFileLen)
  /\ m = NoMap
  /\ hnd = {}
  /\ views = {}
  /\ pages = [k \in {} |-> NoPage]
  /\ req = [k \in {} |-> NoLast]
  /\ heap = [maps |-> 0, pages |-> 0, names |-> 0]
  /\ errno = "0"
  /\ pend = NoCall
  /\ last = NoLast
  /\ calls = 0
  /\ thr = NoThreads

ThreadOpen ==
  /\ ~pend.active
  /\ ~m.live
  /\ calls = 0
  /\ \E mode \in PageModes : OpenNativeOf("open", mode, "none")

ThreadOpenRest ==
  /\ pend.active
  /\ \E sz \in {MaxFileLen - 1, MaxFileLen} :
        OpenRestOf(sz, 1, "none", 0)

\* the thread has left its call with no Page
ThreadFailed(t) ==
  [thr EXCEPT ![t].pc = "done", ![t].ok = FALSE]

\* thread t calls mmaptwo_acquire(m, sz, pre_off)
ThrEnter(t) ==
  /\ m.live
  /\ thr[t].pc = "idle"
  /\ \E sz \in PageSizes \cup {0}, pre_off \in PageOffsets,
        fail \in AcquireFails :
        thr' = [thr EXCEPT ![t].pc = "entered", ![t].sz = sz,
                           ![t].off = pre_off, ![t].fail = fail]
  /\ calls' = calls + 1
  /\ UNCHANGED <<os, gran, file, m, hnd, views, pages, req, heap, errno, pend,
                 last>>

\* "repair input size and offset" and the calloc of the page record, in the
\* order of the backend
ThrCheck(t) ==
  /\ thr[t].pc = "entered"
  /\ LET c == thr[t]
         off == Wrap(c.off + m.offnum)
         invalid == IF os = "unix" THEN RangeInvalid_unix(m, c.sz, c.off)
                    ELSE RangeInvalid_win32(m, c.sz, c.off)
         allocated == IF os = "unix" THEN ~invalid /\ c.fail # "calloc"
                      ELSE c.fail # "calloc"
     IN /\ heap' = [heap EXCEPT !.pages = @ + (IF allocated THEN 1 ELSE 0)]
        /\ thr' = IF invalid \/ c.fail = "calloc"
                    THEN ThreadFailed(t)
                    ELSE [thr EXCEPT ![t].pc = "checked", ![t].abs = off]
        /\ m' = acquire_mapping_after(m, off)
  /\ UNCHANGED <<os, gran, file, hnd, views, pages, req, errno, pend, last,
                 calls>>

\* "fix to page sizes" and the native view call
ThrMap(t) ==
  /\ thr[t].pc = "checked"
  /\ LET c == thr[t]
         fullshift == FullShift(c.abs, gran)
         fulloff0 == c.abs - fullshift
         fullsize == c.sz + fullshift
         r == IF os = "unix"
                THEN mmap(fullsize, mmaptwo_mode_prot_cvt_unix(m.mt.mode),
                          mmaptwo_mode_flag_cvt(m.mt.privy), m.fd, fulloff0,
                          c.fail # "map")
                ELSE MapViewOfFile(m.fmd, mmaptwo_mode_access_cvt(m.mt),
                                   Wrap(fulloff0 - Wrap(m.offnum - m.shift)),
                                   fullsize, c.fail # "map")
         refused == ShiftOverflows(fullshift, c.sz) \/ r.ptr = NULL
     IN /\ heap' = [heap EXCEPT !.pages = @ - (IF refused THEN 1 ELSE 0)]
        /\ views' = IF refused THEN views ELSE views \cup r.view
        /\ thr' = IF refused
                    THEN ThreadFailed(t)
                    ELSE [thr EXCEPT ![t].pc = "mapped", ![t].ptr = r.ptr,
                                     ![t].len = fullsize,
                                     ![t].shift = fullshift]
  /\ UNCHANGED <<os, gran, file, m, hnd, pages, req, errno, pend, last,
                 calls>>

\* "initialize the interface" and the return of the Page
ThrReturn(t) ==
  /\ thr[t].pc = "mapped"
  /\ LET c == thr[t]
         k == LowestFree(DOMAIN pages)
         pu == [ptr |-> c.ptr, len |-> c.len, shift |-> c.shift,
                offnum |-> c.off]
         rec == [NoLast EXCEPT !.op = "acquire", !.res = k, !.sz = c.sz,
                   !.off = c.off, !.moff = mmaptwo_mmt_offset(m),
                   !.nat = c.ptr, !.fullsize = c.len, !.shift = c.shift]
     IN /\ pages' = [i \in DOMAIN pages \cup {k} |->
                       IF i = k THEN pu ELSE pages[i]]
        /\ req' = [i \in DOMAIN pages \cup {k} |->
                     IF i = k THEN rec ELSE req[i]]
        /\ last' = rec
        /\ thr' = [thr EXCEPT ![t].pc = "done", ![t].ok = TRUE,
                              ![t].page = k]
  /\ UNCHANGED <<os, gran, file, m, hnd, views, heap, errno, pend, calls>>

ThreadEnter == \E t \in Threads : ThrEnter(t)
ThreadCheck == \E t \in Threads : ThrCheck(t)
ThreadMap == \E t \in Threads : ThrMap(t)
ThreadReturn == \E t \in Threads : ThrReturn(t)

\* the Mapping is closed once no thread is inside acquire
ThreadClose ==
  /\ \A t \in Threads : thr[t].pc \in {"idle", "done"}
  /\ Close

ThreadNext ==
  \/ ThreadOpen
  \/ ThreadOpenRest
  \/ ThreadEnter
  \/ ThreadCheck
  \/ ThreadMap
  \/ ThreadReturn
  \/ PageClose
  \/ ThreadClose

ThreadSpec == ThreadInit /\ [][ThreadNext]_vars

---------------------------------------------------------------------------
(* mmaptwo_mode_parse called on its own, on every short mode text and on   *)
(* texts around the 8 characters it reads.                                 *)

\* longest mode text tried in full
MaxModeLen == 3

\* the five mode characters, 'x', 'R', 'Q' and NUL
ModeChars ==
  {mmaptwo_mode_read, mmaptwo_mode_write, mmaptwo_mode_end,
   mmaptwo_mode_private, mmaptwo_mode_bequeath, 120, 82, 81, 0}
ModeTexts(n) == UNION {[1..k -> ModeChars] : k \in 0..n}
ModePad(n) == [i \in 1..n |-> 120]
ParseInputs ==
  ModeTexts(MaxModeLen)
    \cup {ModePad(n) \o t : n \in {6, 7, 8}, t \in ModeTexts(2)}

ParseInit ==
  /\ os \in {"unix", "win32"}
  /\ gran = 1
  /\ file = <<>>
  /\ m = NoMap
  /\ hnd = {}
  /\ views = {}
  /\ pages = [k \in {} |-> NoPage]
  /\ req = [k \in {} |-> NoLast]
  /\ heap = [maps |-> 0, pages |-> 0, names |-> 0]
  /\ errno = "0"
  /\ pend = NoCall
  /\ last = NoLast
  /\ calls = 0
  /\ thr = NoThreads

\* mmaptwo_mode_parse(mmode): the tag returned and how many characters of
\* mmode were read
ModeParseOf(mmode) ==
  /\ last' = [op |-> "mode_parse", mode |-> mmode,
              mt |-> mmaptwo_mode_parse(mmode),
              reads |-> mode_parse_reads(mmode)]
  /\ UNCHANGED <<thr, os, gran, file, m, hnd, views, pages, req, heap, errno, pend,
                 calls>>

\* one call in each run: the function keeps no state
ModeParse ==
  /\ last = NoLast
  /\ \E mmode \in ParseInputs : ModeParseOf(mmode)

ParseNext == ModeParse

ParseSpec == ParseInit /\ [][ParseNext]_vars

---------------------------------------------------------------------------
(* mmaptwo_u8towc, the UTF-8 to UTF-16 conversion of the Windows backend,  *)
(* called on its own on filenames: a code point's UTF-8 bytes, whole or    *)
(* cut short, between ASCII characters.                                    *)

\* how many code points are tried at even distances through each range
MaxSample == 24

\* nm[p], p counted from 1; the text ends with a NUL
u8_at(nm, p) == IF p <= Len(nm) THEN nm[p] ELSE 0

\* unsigned int is UIntBits wide
UIntBits == 5
UINT_MAX == 2^UIntBits - 1

\* static size_t const sz_max = UINT_MAX/2u-4u
sz_max == (UINT_MAX \div 2) - 4

\* "check extension codes": for (i = 0; i < cnt; ++i) on v1 = *(p+i),
\* from i on; the value collected, or EILSEQ
RECURSIVE u8_extension(_, _, _, _, _)
u8_extension(nm, p, i, cnt, qv) ==
  IF i >= cnt THEN [err |-> "0", qv |-> qv]
  ELSE LET v1 == u8_at(nm, p + i) IN
       IF v1 < 128 \/ v1 >= 192 THEN [err |-> "EILSEQ", qv |-> qv]
       ELSE u8_extension(nm, p, i + 1, cnt, qv * 64 + (v1 % 64))

\* (wchar_t)qv: wchar_t has 16 bits on Windows
wchar_cast(qv) == qv % 65536

\* the loop of mmaptwo_u8towc_shim from *p on, out holding the n code units
\* written so far
RECURSIVE u8towc_shim_from(_, _, _)
u8towc_shim_from(nm, p, out) ==
  LET v == u8_at(nm, p)
      n == Len(out)
  IN IF v = 0 \/ n >= sz_max THEN [err |-> "0", out |-> out]
     ELSE IF v < 128 THEN u8towc_shim_from(nm, p + 1, Append(out, v))
     ELSE IF v < 192 THEN [err |-> "EILSEQ", out |-> <<>>]
     ELSE IF v < 224
       THEN LET x == u8_extension(nm, p, 0, 1, v % 32) IN
            IF x.err # "0" THEN [err |-> x.err, out |-> <<>>]
            ELSE u8towc_shim_from(nm, p + 2, Append(out, wchar_cast(x.qv)))
     ELSE IF v < 240
       THEN LET x == u8_extension(nm, p, 0, 2, v % 16) IN
            IF x.err # "0" THEN [err |-> x.err, out |-> <<>>]
            ELSE u8towc_shim_from(nm, p + 3, Append(out, wchar_cast(x.qv)))
     ELSE IF v < 248
       THEN LET x == u8_extension(nm, p, 0, 3, v % 4)
                \* qv -= 0x10000, of which the low 20 bits are used
                qv == (x.qv - 65536) % 1048576
            IN IF x.err # "0" THEN [err |-> x.err, out |-> <<>>]
               ELSE IF x.qv >= 1114111 THEN [err |-> "EILSEQ", out |-> <<>>]
               ELSE u8towc_shim_from(nm, p + 4,
                      out \o <<55296 + ((qv \div 1024) % 1024),
                               56320 + (qv % 1024)>>)
     ELSE [err |-> "EILSEQ", out |-> <<>>]

\* mmaptwo_u8towc_shim(nm, out, outlen): the error returned and, when it is
\* 0, the code units written (outlen is their number)
mmaptwo_u8towc_shim(nm) == u8towc_shim_from(nm, 1, <<>>)

\* mmaptwo_u8towc(nm): the wide string (without its closing 0), or NULL
\* for a bad sequence or when calloc fails
mmaptwo_u8towc(nm, callocOk) ==
  LET r == mmaptwo_u8towc_shim(nm) IN
  IF r.err # "0" THEN [ptr |-> NULL, out |-> <<>>, hit |-> "conv"]
  ELSE IF ~callocOk THEN [ptr |-> NULL, out |-> <<>>, hit |-> "buf"]
  ELSE [ptr |-> 1, out |-> r.out, hit |-> "none"]

\* the UTF-8 bytes of a code point (RFC 3629)
Utf8(cp) ==
  IF cp < 128 THEN <<cp>>
  ELSE IF cp < 2048 THEN <<192 + (cp \div 64), 128 + (cp % 64)>>
  ELSE IF cp < 65536
    THEN <<224 + (cp \div 4096), 128 + ((cp \div 64) % 64),
           128 + (cp % 64)>>
  ELSE <<240 + (cp \div 262144), 128 + ((cp \div 4096) % 64),
         128 + ((cp \div 64) % 64), 128 + (cp % 64)>>

\* code points of each length of encoding: the ends of the ranges, the
\* ends of the surrogate halves, and a sample at even distances
AstralPoints ==
  {65536, 65537, 66559, 66560, 128512, 262143, 262144, 1048575, 1048576,
   1114110, 1114111}
    \cup {65536 + k * (1048576 \div MaxSample) : k \in 0..(MaxSample - 1)}
BasicPoints ==
  {65, 127, 128, 233, 2047, 2048, 8364, 55295, 57344, 65535}
\* a sequence cut short: all but its last byte
Truncated(seq) == SubSeq(seq, 1, Len(seq) - 1)
\* ill-formed sequences: stray continuation bytes, overlong encodings of
\* U+0000, U+002F and U+20AC, a UTF-16 surrogate, code points past U+10FFFF,
\* lead bytes that begin no sequence
IllFormed ==
  {<<128>>, <<191>>, <<192, 128>>, <<193, 191>>, <<192, 175>>,
   <<224, 128, 128>>, <<224, 130, 172>>, <<240, 128, 128, 128>>,
   <<240, 130, 130, 172>>, <<237, 160, 128>>, <<237, 191, 191>>,
   <<244, 144, 128, 128>>, <<247, 191, 191, 191>>, <<248, 136, 128, 128>>,
   <<255>>, <<194, 65>>, <<226, 130, 65>>}
\* names of ASCII characters about as long as the conversion's limit
AsciiRun(n) == [i \in 1..n |-> 97 + (i % 26)]
LongNames == {AsciiRun(n) : n \in (sz_max - 1)..(sz_max + 2)}
U8Names ==
  LET seqs == {Utf8(cp) : cp \in AstralPoints \cup BasicPoints}
                \cup {Truncated(Utf8(cp)) : cp \in AstralPoints}
                \cup IllFormed
  IN {pre \o q \o suf : pre \in {<<>>, <<97>>}, q \in seqs,
                        suf \in {<<>>, <<98>>}}
       \cup LongNames

U8Init ==
  /\ os = "win32"
  /\ gran = 1
  /\ file = <<>>
  /\ m = NoMap
  /\ hnd = {}
  /\ views = {}
  /\ pages = [k \in {} |-> NoPage]
  /\ req = [k \in {} |-> NoLast]
  /\ heap = [maps |-> 0, pages |-> 0, names |-> 0]
  /\ errno = "0"
  /\ pend = NoCall
  /\ last = NoLast
  /\ calls = 0
  /\ thr = NoThreads

\* mmaptwo_u8towc(nm), the buffer freed again by the caller
U8towcOf(nm, callocOk) ==
  /\ LET r == mmaptwo_u8towc(nm, callocOk) IN
     last' = [op |-> "u8towc", nm |-> nm, res |-> r.ptr, out |-> r.out,
              fail |-> r.hit]
  /\ UNCHANGED <<thr, os, gran, file, m, hnd, views, pages, req, heap, errno, pend,
                 calls>>

\* one call in each run: the function keeps no state
U8towc ==
  /\ last = NoLast
  /\ \E nm \in U8Names, callocOk \in BOOLEAN : U8towcOf(nm, callocOk)

U8Next == U8towc

U8Spec == U8Init /\ [][U8Next]_vars

---------------------------------------------------------------------------
(* The claims *)

\* C1: mmaptwo_acquire(m, size, offset) returns NULL with errno EDOM whenever
\* offset > length(m), or size > length(m) - offset, or size = 0; and every
\* acquire that returns a Page has offset + size <= length(m).
C1_AcquireRangeChecked ==
  last.op = "acquire" =>
    /\ (\/ last.off > mmaptwo_mmt_length(m)
        \/ last.sz > mmaptwo_mmt_length(m) - last.off
        \/ last.sz = 0)
         => (last.res = NULL /\ errno = "EDOM")
    /\ last.res # NULL => last.off + last.sz <= mmaptwo_mmt_length(m)

\* C2: for every Page acquired with (size, offset) whose bytes lie in the
\* file, the page is size bytes long and the byte read at
\* mmaptwo_page_get(p) + i is the file's byte at
\* mmaptwo_offset(m) + offset + i, for every i below size.
C2_PageShowsFileBytes ==
  \A k \in DOMAIN pages :
    LET first == req[k].moff + req[k].off IN
    first + req[k].sz <= Len(file) =>
      /\ mmaptwo_mmtp_length(pages[k]) = req[k].sz
      /\ \A i \in 0..(req[k].sz - 1) :
           ReadByte(mmaptwo_mmtp_get(pages[k]) + i)
             = {<<"byte", file[first + i + 1]>>}

C4_Alignment ==
  \A k \in DOMAIN pages :
    /\ req[k].fulloff % mmaptwo_get_page_size = 0
    /\ 0 <= req[k].shift
    /\ req[k].shift < mmaptwo_get_page_size
    /\ req[k].fulloff + req[k].shift = req[k].moff + req[k].off

\* C5: every Mapping that exists has mmaptwo_length >= 1.
C5_NoZeroLengthMapping ==
  m.live => mmaptwo_mmt_length(m) >= 1

\* C6: an open whose mode text has neither 'r' nor 'w' returns NULL, and no
\* Mapping with a no-access mode tag exists.
C6_NoAccessModeFails ==
  /\ (last.op = "open" /\ mmaptwo_mode_parse(last.mode).mode = 0)
       => last.res = NULL
  /\ m.live => m.mt.mode # 0

C8_OpenFailureReleases ==
  (last.op = "open" /\ last.res = NULL)
    => /\ hnd = {}
       /\ heap.maps = 0
       /\ heap.names = 0
       /\ ~m.live

\* an open that failed after the file was opened and the record allocated
C8_Witness ==
  /\ last.op = "open"
  /\ last.res = NULL
  /\ last.fail \in {"getfd", "setfd", "cfm"}
  /\ hnd = {}

\* C9: when mmap / MapViewOfFile fails, mmaptwo_acquire returns NULL, and no
\* Page holds a failed view.
C9_ViewFailureReturnsNull ==
  /\ (last.op = "acquire" /\ last.fail = "map") => last.res = NULL
  /\ \A k \in DOMAIN pages : pages[k].ptr \notin {NULL, MAP_FAILED}

\* C10: an acquire call that returns NULL leaves as many page records
\* allocated and the same views mapped as before the call.
C10_FailedAcquireLeavesNothing ==
  [][(calls' = calls + 1 /\ last'.res = NULL)
       => (heap'.pages = heap.pages /\ views' = views)]_vars

\* C11: mmaptwo_close of a Mapping leaves every Page acquired from it as it
\* was (record, view, reported length and offset, allocation), however many
\* there are; and a Page that has outlived its Mapping can still be closed.
C11_CloseLeavesPages ==
  /\ [][(m.live /\ ~m'.live)
          => /\ pages' = pages
             /\ req' = req
             /\ views' = views
             /\ heap'.pages = heap.pages
             /\ \A k \in DOMAIN pages :
                  /\ mmaptwo_mmtp_length(pages'[k]) = mmaptwo_mmtp_length(pages[k])
                  /\ mmaptwo_mmtp_offset(pages'[k]) = mmaptwo_mmtp_offset(pages[k])]_vars
  /\ []((~m.live /\ DOMAIN pages # {}) => ENABLED PageClose)

\* a Mapping was closed while a Page with a view of it lives
C11_Witness ==
  /\ last.op = "close"
  /\ ~m.live
  /\ \E k \in DOMAIN pages : pages[k].ptr \in {v.base : v \in views}

\* C12: mmaptwo_page_close of one Page leaves the Mapping (record, file
\* handle, authority) and every other live Page (record, view, what it
\* reports) as they were, whether the Pages overlap or not; and the acquire
\* requests the Mapping accepts are the same after the close as before it,
\* the request of the Page just closed among them.
C12_PageCloseLeavesOthers ==
  [][last'.op = "page_close"
       => LET k == last'.res
              accepts(mu, sz, off) ==
                IF os = "unix"
                  THEN mmaptwo_mmt_acquire_unix(mu, sz, off, "none", 0).ok
                  ELSE mmaptwo_mmt_acquire_win32(mu, sz, off, "none", 0).ok
          IN /\ m' = m
             /\ hnd' = hnd
             /\ heap'.maps = heap.maps
             /\ file' = file
             /\ DOMAIN pages' = DOMAIN pages \ {k}
             /\ \A j \in DOMAIN pages' :
                  /\ pages'[j] = pages[j]
                  /\ req'[j] = req[j]
                  /\ \A v \in views : v.base = pages[j].ptr => v \in views'
             /\ m.live =>
                  /\ \A sz \in PageSizes, off \in PageOffsets :
                       accepts(m, sz, off)' = accepts(m, sz, off)
                  /\ (\E v \in views : v.base = pages[k].ptr)
                       => \E sz \in PageSizes, off \in PageOffsets :
                            /\ sz = req[k].sz
                            /\ off = req[k].off
                            /\ accepts(m, sz, off)']_vars

\* a Page is closed while another Page of the same live Mapping, over an
\* overlapping range, stays
C12_Witness ==
  /\ last.op = "page_close"
  /\ m.live
  /\ \E j \in DOMAIN pages :
       /\ pages[j].ptr \in {v.base : v \in views}
       /\ req[j].off = 0
       /\ req[j].sz = 2
  /\ Cardinality(views) = 1
  /\ heap.pages = 1

C14_NoInheritableInstant ==
  mmaptwo_check_bequeath_stop # 0 =>
    /\ (pend.active /\ pend.mt.bequeath = 0) => ~HandleOf(pend.fd).inherit
    /\ (m.live /\ m.mt.bequeath = 0) => \A x \in hnd : ~x.inherit

\* the mode string: the characters of mmode before its first NUL
ModeString(mmode) ==
  LET nuls == {i \in 1..Len(mmode) : mmode[i] = 0}
  IN IF nuls = {} THEN mmode
     ELSE SubSeq(mmode, 1, (CHOOSE i \in nuls : \A j \in nuls : i <= j) - 1)

\* the recognized characters that occur in a mode string
RecognizedIn(str) ==
  {str[i] : i \in 1..Len(str)}
    \cap {mmaptwo_mode_read, mmaptwo_mode_write, mmaptwo_mode_end,
          mmaptwo_mode_private, mmaptwo_mode_bequeath}

\* one mode string for each set of recognized characters
CanonicalMode(chars) ==
  SelectSeq(<<mmaptwo_mode_read, mmaptwo_mode_write, mmaptwo_mode_end,
              mmaptwo_mode_private, mmaptwo_mode_bequeath>>,
            LAMBDA c : c \in chars)

\* C15, as claimed: the tag of a mode string of at most 8 characters depends
\* only on the set of recognized characters that occur in it: it is the tag
\* of every other string with the same set, whatever the order and the
\* number of occurrences.
C15_ParseOrderFree ==
  (last.op = "mode_parse" /\ Len(ModeString(last.mode)) <= 8) =>
    last.mt = mmaptwo_mode_parse(CanonicalMode(RecognizedIn(ModeString(last.mode))))

\* C15, amended: the end, private and bequeath fields of the tag of a mode
\* string of at most 8 characters depend only on the set of recognized
\* characters that occur in it; the access field is the last 'r' or 'w' of
\* the string, so the whole tag depends only on that set when 'r' and 'w' do
\* not both occur.
C15_ParseOrderFree_amended ==
  (last.op = "mode_parse" /\ Len(ModeString(last.mode)) <= 8) =>
    LET str == ModeString(last.mode)
        chars == RecognizedIn(str)
        other == mmaptwo_mode_parse(CanonicalMode(chars))
        access == {i \in 1..Len(str) :
                     str[i] \in {mmaptwo_mode_read, mmaptwo_mode_write}}
    IN /\ last.mt.end = other.end
       /\ last.mt.privy = other.privy
       /\ last.mt.bequeath = other.bequeath
       /\ last.mt.mode =
            IF access = {} THEN 0
            ELSE str[CHOOSE i \in access : \A j \in access : j <= i]
       /\ ~({mmaptwo_mode_read, mmaptwo_mode_write} \subseteq chars)
            => last.mt = other

\* "qer" was parsed: a permutation of "req"
C15_Witness ==
  /\ last.op = "mode_parse"
  /\ last.mode = <<mmaptwo_mode_bequeath, mmaptwo_mode_end, mmaptwo_mode_read>>
  /\ last.mt = [mode |-> mmaptwo_mode_read, end |-> mmaptwo_mode_end,
                privy |-> 0, bequeath |-> mmaptwo_mode_bequeath]

\* C16: the parser reads at most the first 8 characters and nothing after
\* the first NUL; in the characters before both limits, the end, private and
\* bequeath fields are set exactly when 'e', 'p', 'q' occur and the access
\* field exactly when 'r' or 'w' occurs; every other character, upper case
\* included, and every character at index 8 or later changes nothing.
C16_ParseScansPrefix ==
  last.op = "mode_parse" =>
    LET str == ModeString(last.mode)
        scanned == SubSeq(str, 1, IF Len(str) < 8 THEN Len(str) ELSE 8)
        chars == {scanned[i] : i \in 1..Len(scanned)}
        recognized(c) ==
          c \in {mmaptwo_mode_read, mmaptwo_mode_write, mmaptwo_mode_end,
                 mmaptwo_mode_private, mmaptwo_mode_bequeath}
    IN /\ last.mt.end = IF mmaptwo_mode_end \in chars
                          THEN mmaptwo_mode_end ELSE 0
       /\ last.mt.privy = IF mmaptwo_mode_private \in chars
                            THEN mmaptwo_mode_private ELSE 0
       /\ last.mt.bequeath = IF mmaptwo_mode_bequeath \in chars
                               THEN mmaptwo_mode_bequeath ELSE 0
       /\ last.mt.mode \in {0, mmaptwo_mode_read, mmaptwo_mode_write}
       /\ (last.mt.mode # 0) =
            (chars \cap {mmaptwo_mode_read, mmaptwo_mode_write} # {})
       /\ last.mt.mode # 0 => last.mt.mode \in chars
       /\ last.mt = mmaptwo_mode_parse(SelectSeq(scanned, recognized))
       /\ last.mt = mmaptwo_mode_parse(scanned)
       /\ last.reads <= 8
       /\ last.reads <= Len(str) + 1

\* a text whose character at index 8 is 'q' was parsed, and 'q' had no effect
C16_Witness ==
  /\ last.op = "mode_parse"
  /\ Len(last.mode) > 8
  /\ last.mode[9] = mmaptwo_mode_bequeath
  /\ last.mt.bequeath = 0
  /\ last.reads = 8

\* C17 (as the specification states it) : on a 5000-byte file opened with
\* mode "r", size 5000 and offset 0, acquire(100, 4950), with no failure of
\* the environment, yields a Page whose alignment shift is 4950 mod the
\* granularity and whose length is 100.
C17_DumpTail ==
  [][(/\ m.live
      /\ m.mt.mode = mmaptwo_mode_read
      /\ mmaptwo_mmt_length(m) = 5000
      /\ mmaptwo_mmt_offset(m) = 0
      /\ last'.op = "acquire"
      /\ calls' = calls + 1
      /\ last'.sz = 100
      /\ last'.off = 4950
      /\ last'.fail = "none")
     => /\ last'.res # NULL
        /\ pages'[last'.res].shift = 4950 % gran
        /\ mmaptwo_mmtp_length(pages'[last'.res]) = 100]_vars

\* C17 (amended) : on a 5000-byte file opened with mode "r", size 5000 and
\* offset 0, acquire(100, 4950) asks for bytes 4950..5049, past the
\* Mapping's 5000: it returns no Page, maps nothing and, when no allocation
\* failed first, reports EDOM.  The part of that range inside the Mapping,
\* acquire(50, 4950), yields whenever it returns a Page one whose alignment
\* shift is 4950 mod the granularity, whose length is 50 and whose offset
\* is 4950.
C17_DumpTail_amended ==
  [][(/\ m.live
      /\ m.mt.mode = mmaptwo_mode_read
      /\ mmaptwo_mmt_length(m) = 5000
      /\ mmaptwo_mmt_offset(m) = 0
      /\ last'.op = "acquire"
      /\ calls' = calls + 1
      /\ last'.off = 4950)
     => /\ last'.sz = 100 =>
             /\ last'.res = NULL
             /\ views' = views
             /\ pages' = pages
             /\ last'.fail = "none" => errno' = "EDOM"
        /\ (last'.sz = 50 /\ last'.res # NULL) =>
             /\ pages'[last'.res].shift = 4950 % gran
             /\ mmaptwo_mmtp_length(pages'[last'.res]) = 50
             /\ mmaptwo_mmtp_offset(pages'[last'.res]) = 4950]_vars

\* acquire(100, 4950) was refused on the 5000-byte Mapping, at the
\* granularity 4096
C17_Witness ==
  /\ gran = 4096
  /\ m.live
  /\ m.mt.mode = mmaptwo_mode_read
  /\ mmaptwo_mmt_length(m) = 5000
  /\ mmaptwo_mmt_offset(m) = 0
  /\ last.op = "acquire"
  /\ last.sz = 100
  /\ last.off = 4950
  /\ last.fail = "none"
  /\ last.res = NULL
  /\ errno = "EDOM"


\* the byte of the file that byte i of Page k shows
PagePos(k, i) == req[k].moff + req[k].off + i

\* C18: a Page acquired from a Mapping whose mode lacks 'p' is a shared
\* view, not a copy-on-write one; and while every view is a shared one, any
\* two Pages read the same at every byte of the file both show, stores made
\* through either of them included.
C18_SharedPagesAgree ==
  /\ [][(/\ last'.op = "acquire"
         /\ calls' = calls + 1
         /\ last'.res # NULL
         /\ m.mt.privy = 0)
        => \E v \in views' \ views :
             /\ v.base = pages'[last'.res].ptr
             /\ ~CopyOnWrite(v)]_vars
  /\ []((\A v \in views : ~CopyOnWrite(v))
        => \A j, k \in DOMAIN pages :
             \A a \in 0..(mmaptwo_mmtp_length(pages[j]) - 1),
                b \in 0..(mmaptwo_mmtp_length(pages[k]) - 1) :
               (PagePos(j, a) = PagePos(k, b) /\ PagePos(j, a) < Len(file))
                 => ReadByte(mmaptwo_mmtp_get(pages[j]) + a)
                      = ReadByte(mmaptwo_mmtp_get(pages[k]) + b))

\* C19: a Page acquired, with no failure of the environment, from a Mapping
\* whose mode has 'p' is a copy-on-write view on either backend; and a store through a Page whose
\* view was asked to be private (MAP_PRIVATE, FILE_MAP_COPY) leaves the file
\* as it was and leaves what every other Page reads as it was.
C19_PrivatePagesIsolated ==
  /\ [][(/\ last'.op = "acquire"
         /\ calls' = calls + 1
         /\ last'.res # NULL
         /\ last'.fail = "none"
         /\ m.mt.privy # 0)
        => \E v \in views' \ views :
             /\ v.base = pages'[last'.res].ptr
             /\ CopyOnWrite(v)]_vars
  /\ [][(/\ last'.op = "store"
         /\ \E v \in views :
              /\ v.base = pages[last'.res].ptr
              /\ v.flags \cap {"MAP_PRIVATE", "FILE_MAP_COPY"} # {})
        => /\ file' = file
           /\ \A j \in DOMAIN pages \ {last'.res} :
                \A a \in 0..(mmaptwo_mmtp_length(pages[j]) - 1) :
                  ReadByte(mmaptwo_mmtp_get(pages[j]) + a)'
                    = ReadByte(mmaptwo_mmtp_get(pages[j]) + a)]_vars

\* C20: for every filename in which a well-formed 4-byte UTF-8 sequence, of
\* a code point cp in U+10000..U+10FFFF, stands between ASCII characters,
\* the conversion to UTF-16 succeeds whenever its buffer can be allocated
\* and gives, in place of the sequence, exactly the two code units
\* 0xD800 + ((cp - 0x10000) >> 10) and 0xDC00 + ((cp - 0x10000) & 0x3FF).
C20_SurrogatePair ==
  last.op = "u8towc" =>
    \A cp \in AstralPoints, pre \in {<<>>, <<97>>}, suf \in {<<>>, <<98>>} :
      (last.nm = pre \o Utf8(cp) \o suf /\ last.fail # "buf")
        => /\ last.res # NULL
           /\ last.out = pre \o <<55296 + ((cp - 65536) \div 1024),
                                   56320 + ((cp - 65536) % 1024)>> \o suf

\* what a UTF-8 text decodes to (RFC 3629): its code points, or bad for an
\* ill-formed text (stray or missing continuation byte, overlong encoding,
\* surrogate, code point past U+10FFFF)
IsCont(b) == 128 <= b /\ b < 192
RECURSIVE RefDecodeFrom(_, _, _)
RefDecodeFrom(nm, p, cps) ==
  LET v == u8_at(nm, p)
      c1 == u8_at(nm, p + 1)
      c2 == u8_at(nm, p + 2)
      c3 == u8_at(nm, p + 3)
      Bad == [bad |-> TRUE, cps |-> <<>>]
  IN IF p > Len(nm) THEN [bad |-> FALSE, cps |-> cps]
     ELSE IF v < 128 THEN RefDecodeFrom(nm, p + 1, Append(cps, v))
     ELSE IF 194 <= v /\ v < 224
       THEN IF IsCont(c1)
              THEN RefDecodeFrom(nm, p + 2,
                     Append(cps, (v % 32) * 64 + (c1 % 64)))
              ELSE Bad
     ELSE IF 224 <= v /\ v < 240
       THEN LET cp == ((v % 16) * 64 + (c1 % 64)) * 64 + (c2 % 64) IN
            IF IsCont(c1) /\ IsCont(c2) /\ cp >= 2048
               /\ ~(55296 <= cp /\ cp < 57344)
              THEN RefDecodeFrom(nm, p + 3, Append(cps, cp))
              ELSE Bad
     ELSE IF 240 <= v /\ v < 245
       THEN LET cp == (((v % 8) * 64 + (c1 % 64)) * 64 + (c2 % 64)) * 64
                        + (c3 % 64) IN
            IF IsCont(c1) /\ IsCont(c2) /\ IsCont(c3)
               /\ cp >= 65536 /\ cp <= 1114111
              THEN RefDecodeFrom(nm, p + 4, Append(cps, cp))
              ELSE Bad
     ELSE Bad
RefDecode(nm) == RefDecodeFrom(nm, 1, <<>>)

\* the UTF-16 code units of a sequence of code points
RECURSIVE RefUtf16(_)
RefUtf16(cps) ==
  IF cps = <<>> THEN <<>>
  ELSE LET cp == Head(cps) IN
       (IF cp < 65536 THEN <<cp>>
        ELSE <<55296 + ((cp - 65536) \div 1024),
               56320 + ((cp - 65536) % 1024)>>) \o RefUtf16(Tail(cps))

\* C21: the conversion of an ill-formed name fails with an encoding error,
\* and a conversion that succeeds has produced the UTF-16 form of the whole
\* name, not of a part of it.
C21_RejectsIllFormed ==
  last.op = "u8towc" =>
    LET d == RefDecode(last.nm) IN
    /\ d.bad => (last.res = NULL /\ last.fail = "conv")
    /\ last.res # NULL => (~d.bad /\ last.out = RefUtf16(d.cps))


\* C22: the caller having set errno to 0 before the call, an open or an
\* acquire that returned NULL has left errno other than 0.
C22_FailureSetsErrno ==
  (last.op \in {"open", "acquire"} /\ last.res = NULL) => errno # "0"

\* C23: on a Mapping that open returned, mmaptwo_acquire(m,
\* mmaptwo_length(m), 0) is not refused as out of range (EDOM), and the Page
\* it returns, if it returns one, has the Mapping's length and offset 0.
C23_FullExtentAccepted ==
  [][(/\ m.live
      /\ last'.op = "acquire"
      /\ calls' = calls + 1
      /\ last'.sz = mmaptwo_mmt_length(m)
      /\ last'.off = 0)
     => /\ errno' # "EDOM"
        /\ last'.res # NULL =>
             /\ mmaptwo_mmtp_length(pages'[last'.res]) = mmaptwo_mmt_length(m)
             /\ mmaptwo_mmtp_offset(pages'[last'.res]) = 0]_vars


\* C24: the offset of a Mapping plus its length does not exceed SIZE_MAX,
\* and so the absolute offset of a Page, the Mapping's offset plus the
\* Page's, does not either.
C24_WindowFitsSizeType ==
  /\ m.live => mmaptwo_mmt_offset(m) + mmaptwo_mmt_length(m) <= SIZE_MAX
  /\ \A k \in DOMAIN pages : req[k].moff + req[k].off <= SIZE_MAX

C26_ZeroGranularity ==
  [][(/\ gran = 0
      /\ m.live
      /\ last'.op = "acquire"
      /\ calls' = calls + 1
      /\ last'.res # NULL)
     => LET pu == pages'[last'.res] IN
        /\ pu.shift = 0
        /\ mmaptwo_mmtp_get(pu) = pu.ptr
        /\ mmaptwo_mmtp_length(pu) = last'.sz
        /\ \A v \in views' \ views :
             /\ v.base = pu.ptr
             /\ v.foff = mmaptwo_mmt_offset(m) + last'.off]_vars

\* C27: mmaptwo_close releases the authority (where there is one) and then
\* the file, each of them open until then and closed after, each by one
\* call, and frees the record last; mmaptwo_page_close unmaps the region
\* [base, base + aligned length) that acquire got, all of it and no more,
\* not the part the caller sees from base + shift on, and then frees the
\* page record.
C27_ReleaseOrder ==
  /\ [][(last'.op = "close" /\ m.live /\ ~m'.live)
        => /\ last'.rel =
                (IF os = "win32"
                   THEN <<ReleaseCall("CloseHandle", m.fmd, 0)>> ELSE <<>>)
                \o <<ReleaseCall(IF os = "win32" THEN "CloseHandle"
                                 ELSE "close", m.fd, 0),
                     ReleaseCall("free", 0, 0)>>
           /\ IsOpen(m.fd)
           /\ os = "win32" => (IsOpen(m.fmd) /\ m.fmd # m.fd)
           /\ hnd' = {x \in hnd : x.h # m.fd /\ (os = "win32" => x.h # m.fmd)}
           /\ heap'.maps = heap.maps - 1]_vars
  /\ [][\A k \in DOMAIN pages :
          (last'.op = "page_close" /\ last'.res = k /\ k \notin DOMAIN pages')
          => /\ Len(last'.rel) = 2
             /\ last'.rel[1].call =
                  (IF os = "win32" THEN "UnmapViewOfFile" ELSE "munmap")
             /\ last'.rel[1].a = req[k].nat
             /\ os = "unix" => last'.rel[1].n = req[k].fullsize
             /\ last'.rel[2] = ReleaseCall("free", 0, 0)
             /\ views' = {v \in views :
                            ~(/\ req[k].nat <= v.base
                              /\ v.base + v.len
                                   <= req[k].nat + req[k].fullsize)}
             /\ \A v \in views \ views' :
                  v.base = req[k].nat /\ v.len = req[k].fullsize
             /\ heap'.pages = heap.pages - 1]_vars

\* a Mapping of the Windows backend was closed while a Page with a shift
\* above 0 stays
C27_Witness ==
  /\ os = "win32"
  /\ last.op = "close"
  /\ Len(last.rel) = 3
  /\ hnd = {}
  /\ \E k \in DOMAIN pages : pages[k].shift > 0

\* n rounded up to a multiple of g
RoundUp(n, g) == IF n % g = 0 THEN n ELSE n + (g - (n % g))

\* C28 (as the specification states it) : on the Windows backend an open
\* that returns a Mapping, no native call failing, has created the authority
\* with the maximum size min(offset + length, size of the file).
C28_AuthorityClamped ==
  [][(/\ os = "win32"
      /\ last'.op = "open"
      /\ last'.res # NULL
      /\ last'.fail = "none"
      /\ ~m.live /\ m'.live)
     => \E x \in hnd' :
          /\ x.h = m'.fmd
          /\ LET end == mmaptwo_mmt_offset(m') + mmaptwo_mmt_length(m') IN
             x.maxsz = IF end < Len(file) THEN end ELSE Len(file)]_vars

\* C28 (amended) : on the Windows backend an open that returns a Mapping has
\* created the authority with the maximum size min(offset + length rounded
\* up to a multiple of the granularity, size of the file), and with the size
\* of the file when that size could not be read: the authority never
\* exceeds the file, and it exceeds the end of the Mapping by less than one
\* granule when the size of the file was read.
C28_AuthorityClamped_amended ==
  [][(/\ os = "win32"
      /\ last'.op = "open"
      /\ last'.res # NULL
      /\ ~m.live /\ m'.live)
     => \E x \in hnd' :
          /\ x.h = m'.fmd
          /\ LET end == mmaptwo_mmt_offset(m') + mmaptwo_mmt_length(m')
                 ext == RoundUp(end, gran)
             IN /\ x.maxsz <= Len(file)
                /\ last'.fail = "fsize" => x.maxsz = Len(file)
                /\ last'.fail = "none" =>
                     /\ x.maxsz = IF ext < Len(file) THEN ext ELSE Len(file)
                     /\ x.maxsz < end + gran]_vars

\* a Mapping of the Windows backend whose authority ends past the Mapping,
\* at the end of the file
C28_Witness ==
  /\ os = "win32"
  /\ m.live
  /\ last.op = "open"
  /\ last.fail = "none"
  /\ HandleOf(m.fmd).maxsz > mmaptwo_mmt_offset(m) + mmaptwo_mmt_length(m)
  /\ HandleOf(m.fmd).maxsz = Len(file)

\* C29: while a Mapping lives, no step changes its record, whatever the
\* threads, Pages and closes of Pages do, so its length and offset stay
\* those of the open; and a thread that has left its acquire call, however
\* the other thread's call was interleaved with it, has the result of that
\* call run alone: a Page or none, and the Page's length, offset and shift.
C29_MappingImmutable ==
  /\ [][(m.live /\ m'.live)
        => /\ m' = m
           /\ mmaptwo_mmt_length(m') = mmaptwo_mmt_length(m)
           /\ mmaptwo_mmt_offset(m') = mmaptwo_mmt_offset(m)]_vars
  /\ [](\A t \in Threads :
          (m.live /\ thr[t].pc = "done")
          => LET c == thr[t]
                 r == IF os = "unix"
                        THEN mmaptwo_mmt_acquire_unix(m, c.sz, c.off, c.fail,
                                                      0)
                        ELSE mmaptwo_mmt_acquire_win32(m, c.sz, c.off, c.fail,
                                                       0)
             IN /\ c.ok = r.ok
                /\ c.ok => /\ c.len = r.page.len
                           /\ c.shift = r.page.shift
                           /\ c.off = r.page.offnum)

\* both threads have a Page; thread 1 got its view first and thread 2
\* returned first
C29_Witness ==
  /\ m.live
  /\ thr[1].pc = "done" /\ thr[1].ok
  /\ thr[2].pc = "done" /\ thr[2].ok
  /\ thr[1].ptr < thr[2].ptr
  /\ thr[2].page < thr[1].page
  /\ thr[1].page \in DOMAIN pages
  /\ thr[2].page \in DOMAIN pages


\* C30: an open leaves the views as they were, none of them of the new
\* Mapping; an acquire that returns a Page creates one view and one page
\* record, a close of a Page removes one of each, and so there are always
\* as many views as Pages.
C30_ViewsMatchPages ==
  /\ [][(last'.op = "open" /\ ~m.live /\ m'.live)
        => (views' = views /\ views' = {})]_vars
  /\ [][(last'.op = "acquire" /\ calls' = calls + 1 /\ last'.res # NULL)
        => /\ Cardinality(views') = Cardinality(views) + 1
           /\ Cardinality(DOMAIN pages') = Cardinality(DOMAIN pages) + 1
           /\ heap'.pages = heap.pages + 1]_vars
  /\ [][(last'.op = "page_close" /\ DOMAIN pages' # DOMAIN pages)
        => /\ Cardinality(views') = Cardinality(views) - 1
           /\ Cardinality(DOMAIN pages') = Cardinality(DOMAIN pages) - 1
           /\ heap'.pages = heap.pages - 1]_vars
  /\ [](Cardinality(views) = Cardinality(DOMAIN pages))

====
